---- MODULE Spec2Model ----
(***************************************************************************)
(* Model of sre::Inspector (src/src/sre/Inspector.cpp): the per-frame      *)
(* statistics ring buffer, the Performance/Memory plots of gui(), the      *)
(* resource panels, the shader/mesh previews with their scratch-texture    *)
(* pool and lazily created framebuffer, and the shader edit view.          *)
(*                                                                         *)
(* Floats are modelled exactly: a value is an integer numerator over a     *)
(* fixed denominator, an average is the pair <<sum, divisor>>.             *)
(***************************************************************************)
EXTENDS Integers, Sequences, FiniteSets, TLC

\* ------------------------------------------------------------------ bounds
MaxFrames == 2
MaxFrameCount == 5
MaxStat == 2
MaxFramePreviews == 3
MaxAddrs == 2
MaxShaderObjects == 3
MaxMeshes == 1
MaxCoord == 2
MaxCoordYZ == 1
MaxIndexSets == 2

\* A null pointer or empty weak reference; a pointer to x is <<x>>.
NULL == <<>>
Ref(x) == <<x>>
\* The null Shader*; shader addresses are 1..MaxAddrs.
NullAddr == 0

\* ------------------------------------------------------------------ state
VARIABLES
    frames,             \* Inspector::frames, capacity of the ring buffer
    frameCount,         \* Inspector::frameCount
    stats,              \* Inspector::stats, 0-based vector of RenderStats
    milliseconds,       \* Inspector::milliseconds, 0-based vector of float
    data,               \* Inspector::data, the plot buffer
    recorded,           \* the <<RenderStats, deltaTime>> pairs of the last
                        \* min(frameCount, frames) update() calls, oldest first
    usedTextures,       \* Inspector::usedTextures
    offscreenTextures,  \* Inspector::offscreenTextures, the scratch pool
    framebuffer,        \* Inspector::framebuffer, NULL until first preview
    worldLights,        \* Inspector::worldLights
    shaderEdit,         \* Inspector::shaderEdit, a weak reference or NULL
    shaderHeap,         \* the Shader objects alive, by address
    nextUid,            \* number of Shader objects constructed so far
    shaders,            \* Renderer::shaders, addresses in registration order
    textures,           \* Renderer::textures
    meshes,             \* Renderer::meshes
    spriteAtlases,      \* Renderer::spriteAtlases
    framebufferObjects, \* Renderer::framebufferObjects
    shaderRef,          \* editShader: static Shader* shaderRef
    shaderCode,         \* editShader: static vector<string> shaderCode
    selectedShader,     \* editShader: static int selectedShader
    showPrecompiled,    \* editShader: static bool showPrecompiled
    textEditor,         \* editShader: static TextEditor (text, readOnly)
    shaderCodeFrom,     \* the Shader object shaderCode was last loaded from
    fault,              \* TRUE once a vector was indexed out of range
    ui,                 \* what gui() last drew and rendered in this frame
    frameTextures,      \* textures handed to previews since the last update()
    frameAllocs,        \* textures allocated since the last update()
    poolAtFrameStart,   \* pool size at the last update()
    maxRequests         \* most preview requests seen between two update()s

statVars == <<frames, frameCount, stats, milliseconds, data, recorded>>
poolVars == <<usedTextures, offscreenTextures, framebuffer, worldLights>>
registryVars ==
    <<shaderHeap, nextUid, shaders, textures, meshes, spriteAtlases,
      framebufferObjects>>
editVars ==
    <<shaderEdit, shaderRef, shaderCode, selectedShader, showPrecompiled,
      textEditor, shaderCodeFrom, fault>>
frameVars == <<frameTextures, frameAllocs, poolAtFrameStart, maxRequests>>
vars == <<statVars, poolVars, registryVars, editVars, frameVars, ui>>

\* ------------------------------------------------------------ arithmetic
\* C++ integer remainder: truncates toward zero, sign of the dividend.
CRem(a, b) == IF a >= 0 THEN a % b ELSE -((-a) % b)

Min(a, b) == IF a < b THEN a ELSE b
Max(a, b) == IF a > b THEN a ELSE b

RECURSIVE SumSeq(_)
SumSeq(s) == IF s = <<>> THEN 0 ELSE Head(s) + SumSeq(Tail(s))

\* ------------------------------------------------------------ RenderStats
\* A default-constructed RenderStats (std::vector::resize value-initialises).
ZeroStats ==
    [drawCalls |-> 0, stateChangesShader |-> 0, stateChangesMaterial |-> 0,
     stateChangesMesh |-> 0, meshBytes |-> 0, textureBytes |-> 0]

\* The record Renderer::getRenderStats() returns for a frame of load v.
StatsOf(v) ==
    [drawCalls |-> v, stateChangesShader |-> v, stateChangesMaterial |-> 1,
     stateChangesMesh |-> v - 1, meshBytes |-> 500000 * v,
     textureBytes |-> 1500000 * v]

\* A frame of load v: what getRenderStats() returns and the milliseconds
\* the frame took.
FrameInputs == {<<StatsOf(v), 8 * v>> : v \in 1..MaxStat}

\* Nothing drawn yet in this frame.
NoHeaders ==
    [performance |-> FALSE, memory |-> FALSE, shadersHdr |-> FALSE,
     texturesHdr |-> FALSE, meshesHdr |-> FALSE, atlasesHdr |-> FALSE,
     fbosHdr |-> FALSE]

\* No call of editShader in this frame.
NoEditCall ==
    [reload |-> FALSE, last |-> 0, text |-> <<>>, stored |-> FALSE,
     compiled |-> FALSE, built |-> <<>>, indexed |-> <<>>, closed |-> FALSE]

NoUi ==
    [headers |-> NoHeaders, plots |-> <<>>, panels |-> <<>>, labels |-> <<>>,
     passes |-> <<>>, images |-> <<>>, inits |-> 0, pressed |-> NullAddr,
     editTarget |-> NULL, editView |-> NullAddr, edit |-> NoEditCall]

\* ------------------------------------------------------------ update()
\* update() writing one slot ahead.
UpdateSlotAhead == CRem(frameCount + 1, frames)

\* The slot update() writes: frameCount % frames.
UpdateSlot == CRem(frameCount, frames)

\* Inspector::update() with the record getRenderStats() returns and the
\* wall-clock delta in milliseconds.
update(rs, deltaTime) ==
    /\ frameCount < MaxFrameCount
    /\ usedTextures' = 0
    /\ stats' = [stats EXCEPT ![UpdateSlot] = rs]
    /\ milliseconds' = [milliseconds EXCEPT ![UpdateSlot] = deltaTime]
    /\ frameCount' = frameCount + 1
    /\ recorded' = LET r == Append(recorded, <<rs, deltaTime>>)
                   IN IF Len(r) > frames THEN Tail(r) ELSE r
    /\ frameTextures' = <<>>
    /\ frameAllocs' = 0
    /\ poolAtFrameStart' = Len(offscreenTextures)
    /\ ui' = NoUi
    /\ UNCHANGED <<frames, data, offscreenTextures, framebuffer, worldLights,
                   registryVars, editVars, maxRequests>>

\* ------------------------------------------------------ Performance, Memory
\* The plotted value t of a series at slot idx, as a numerator over
\* SeriesDenominator (the byte counts are divided by 1000000.0f).
SeriesValue(series, idx) ==
    CASE series = "Milliseconds" -> milliseconds[idx]
      [] series = "Draw calls" -> stats[idx].drawCalls
      [] series = "State changes" ->
            stats[idx].stateChangesShader + stats[idx].stateChangesMaterial
            + stats[idx].stateChangesMesh
      [] series = "Mesh MB" -> stats[idx].meshBytes
      [] series = "Texture MB" -> stats[idx].textureBytes

SeriesDenominator(series) ==
    IF series \in {"Mesh MB", "Texture MB"} THEN 1000000 ELSE 1

\* int idx = (frameCount + i) % frames
ReadIdx(i) == CRem(frameCount + i, frames)

\* The plot position without the + frames that keeps it non-negative.
PlotPosNoWrap(idx) == CRem(CRem(-frameCount, frames) + idx, frames)

\* data[(-frameCount % frames + idx + frames) % frames]
PlotPos(idx) == CRem(CRem(-frameCount, frames) + idx + frames, frames)

\* The average taken over the whole buffer.
AvgDivisorFrames == frames

\* The divisor of the running average.
AvgDivisor == Min(frameCount, frames)

\* for (int i = 0; i < frames; i++) { ... } of one series, from step i on.
RECURSIVE PlotLoop(_, _, _)
PlotLoop(series, i, acc) ==
    IF i >= frames THEN acc
    ELSE LET idx == ReadIdx(i)
             t == SeriesValue(series, idx)
             pos == PlotPos(idx)
         IN PlotLoop(series, i + 1,
                [data |-> [k \in DOMAIN acc.data |->
                              IF k = pos THEN t ELSE acc.data[k]],
                 max |-> Max(acc.max, t),
                 sum |-> acc.sum + t,
                 read |-> Append(acc.read, idx),
                 pos |-> Append(acc.pos, pos)])

\* One plot: the loop, the average, and the PlotLines call on data.
Plot(series, d) ==
    LET r == PlotLoop(series, 0,
                 [data |-> d, max |-> 0, sum |-> 0, read |-> <<>>, pos |-> <<>>])
    IN [name |-> series,
        values |-> r.data,
        count |-> frames,
        max |-> r.max,
        avg |-> IF frameCount > 0 THEN <<r.sum, AvgDivisor>> ELSE <<0, 1>>,
        read |-> r.read,
        pos |-> r.pos]

\* The plots of a list of series in turn, each overwriting Inspector::data.
RECURSIVE Plots(_, _)
Plots(names, d) ==
    IF names = <<>> THEN <<>>
    ELSE LET p == Plot(Head(names), d)
         IN <<p>> \o Plots(Tail(names), p.values)

PerformanceSeries == <<"Milliseconds", "Draw calls", "State changes">>
MemorySeries == <<"Mesh MB", "Texture MB">>

\* The plots gui() draws given which of the two headers are expanded.
GuiPlots(performance, memory) ==
    Plots((IF performance THEN PerformanceSeries ELSE <<>>)
          \o (IF memory THEN MemorySeries ELSE <<>>), data)

\* ------------------------------------------------------------ scratch pool
\* The state one gui() call threads through its panels: the Inspector
\* members the panels change, and what they draw.
GuiState ==
    [usedTextures |-> usedTextures,
     offscreenTextures |-> offscreenTextures,
     framebuffer |-> framebuffer,
     worldLights |-> worldLights,
     shaderEdit |-> shaderEdit,
     pressed |-> NullAddr,
     allocs |-> 0,
     handed |-> <<>>,
     inits |-> 0,
     panels |-> <<>>,
     labels |-> <<>>,
     passes |-> <<>>,
     images |-> <<>>]

\* Texture::create().withRGBData(nullptr, 256, 256)
\*     .withName("SRE Inspector Tex #" + size).build()
NewTexture(size) == [name |-> size, width |-> 256, height |-> 256]

\* getTmpTexture() reusing a pooled texture without counting it as used.
getTmpTextureNoCount(g) ==
    IF g.usedTextures < Len(g.offscreenTextures)
    THEN [g |-> g, tex |-> g.offscreenTextures[g.usedTextures + 1]]
    ELSE LET offscreenTex == NewTexture(Len(g.offscreenTextures))
         IN [g |-> [g EXCEPT !.offscreenTextures = Append(@, offscreenTex),
                             !.usedTextures = @ + 1,
                             !.allocs = @ + 1],
             tex |-> offscreenTex]

PointLight(pos) == [type |-> "point", position |-> pos]

\* Inspector::getTmpTexture(): the state after the call and the texture
\* returned.
getTmpTexture(g) ==
    IF g.usedTextures < Len(g.offscreenTextures)
    THEN [g |-> [g EXCEPT !.usedTextures = @ + 1],
          tex |-> g.offscreenTextures[g.usedTextures + 1]]
    ELSE LET offscreenTex == NewTexture(Len(g.offscreenTextures))
         IN [g |-> [g EXCEPT !.offscreenTextures = Append(@, offscreenTex),
                             !.usedTextures = @ + 1,
                             !.allocs = @ + 1],
             tex |-> offscreenTex]


\* initFramebuffer() without the usedTextures reset.
initFramebufferNoReset(g) ==
    IF g.framebuffer = NULL
    THEN LET r == getTmpTexture(g)
         IN [r.g EXCEPT
                !.framebuffer = Ref([name |-> "SRE Inspector Framebufferobject",
                                     texture |-> r.tex]),
                !.worldLights = [ambient |-> <<2, 2, 2>>,
                                 lights |-> Append(@.lights,
                                                   PointLight(<<0, 0, 4>>))],
                !.inits = @ + 1]
    ELSE g

\* initFramebuffer() without the null test.
initFramebufferAlways(g) ==
    LET r == getTmpTexture(g)
    IN [r.g EXCEPT
           !.framebuffer = Ref([name |-> "SRE Inspector Framebufferobject",
                                texture |-> r.tex]),
           !.usedTextures = 0,
           !.worldLights = [ambient |-> <<2, 2, 2>>,
                            lights |-> Append(@.lights,
                                              PointLight(<<0, 0, 4>>))],
           !.inits = @ + 1]

\* Inspector::initFramebuffer(). The ambient light is in tenths.
initFramebuffer(g) ==
    IF g.framebuffer = NULL
    THEN LET r == getTmpTexture(g)
         IN [r.g EXCEPT
                !.framebuffer = Ref([name |-> "SRE Inspector Framebufferobject",
                                     texture |-> r.tex]),
                !.usedTextures = 0,
                !.worldLights = [ambient |-> <<2, 2, 2>>,
                                 lights |-> Append(@.lights,
                                                   PointLight(<<0, 0, 4>>))],
                !.inits = @ + 1]
    ELSE g

\* camera.setPerspectiveProjection(60, 0.1, 10) (near in tenths);
\* camera.lookAt({0,0,4}, {0,0,0}, {0,1,0})
PreviewCamera ==
    [fov |-> 60, nearTenths |-> 1, far |-> 10,
     eye |-> <<0, 0, 4>>, at |-> <<0, 0, 0>>, up |-> <<0, 1, 0>>]

\* The common start of a preview: initFramebuffer(), getTmpTexture(),
\* framebuffer->setTexture(offscreenTexture), RenderPass::create()...build().
PreviewPass(g0) ==
    LET g1 == initFramebuffer(g0)
        r == getTmpTexture(g1)
        fb == Ref([r.g.framebuffer[1] EXCEPT !.texture = r.tex])
    IN [g |-> [r.g EXCEPT !.framebuffer = fb,
                          !.handed = Append(@, r.tex)],
        tex |-> r.tex,
        pass |-> [camera |-> PreviewCamera,
                  worldLights |-> r.g.worldLights,
                  framebuffer |-> fb,
                  clear |-> TRUE,
                  clearColor |-> <<0, 0, 0, 1>>,
                  gui |-> FALSE]]

\* ------------------------------------------------------------ showTexture
\* Inspector::showTexture(tex) for registry entry i; node is the state of
\* its tree node.
showTexture(g, i, node) ==
    IF node = "closed" THEN g
    ELSE [g EXCEPT
            !.panels = Append(@, [kind |-> "texture", index |-> i]),
            !.images = IF textures[i].cubemap THEN @
                       ELSE Append(@, [texture |-> textures[i].name,
                                       by |-> "texture"])]

\* ------------------------------------------------------------ showMesh
VAdd(a, b) == [k \in 1..3 |-> a[k] + b[k]]
VSub(a, b) == [k \in 1..3 |-> a[k] - b[k]]

\* Exact fractions <<numerator, denominator>>; a zero denominator is what a
\* float division by zero yields (infinite or not-a-number).
RMul(a, b) == <<a[1] * b[1], a[2] * b[2]>>
RAdd(a, b) == <<a[1] * b[2] + b[1] * a[2], a[2] * b[2]>>
RFinite(a) == a[2] # 0
REq(a, b) == RFinite(a) /\ RFinite(b) /\ a[1] * b[2] = b[1] * a[2]
RLeq(a, b) ==
    /\ RFinite(a) /\ RFinite(b)
    /\ IF a[2] * b[2] > 0 THEN a[1] * b[2] <= b[1] * a[2]
       ELSE a[1] * b[2] >= b[1] * a[2]

\* auto center = (bounds[1] + bounds[0]) * 0.5f, component k
MeshCenter(mesh) == [k \in 1..3 |-> <<VAdd(mesh.bmax, mesh.bmin)[k], 2>>]
\* auto offset = -center
MeshOffset(mesh) == [k \in 1..3 |-> <<-MeshCenter(mesh)[k][1], MeshCenter(mesh)[k][2]>>]
\* auto scale = bounds[1] - bounds[0]
MeshExtent(mesh) == VSub(mesh.bmax, mesh.bmin)
\* float maxS = std::max({scale.x, scale.y, scale.z})
MeshMaxS(mesh) ==
    Max(MeshExtent(mesh)[1], Max(MeshExtent(mesh)[2], MeshExtent(mesh)[3]))
\* 1.0f / maxS
MeshScaleOne(mesh) == <<1, MeshMaxS(mesh)>>

\* 2.0f / maxS
MeshScale(mesh) == <<2, MeshMaxS(mesh)>>

\* glm::eulerAngleY(time * rotationSpeed) * glm::scale(vec3(2/maxS))
\*     * glm::translate(offset): the factors of the product, left to right.
MeshTransform(mesh) ==
    <<[op |-> "eulerAngleY"],
      [op |-> "scale", by |-> MeshScale(mesh)],
      [op |-> "translate", by |-> MeshOffset(mesh)]>>

\* The material loop bounded by getIndexSets() alone.
PreviewMaterialCountNoMax(mesh) == mesh.indexSets

\* std::vector<std::shared_ptr<Material>> mats, filled by the loop
\* for (int m = 0; m < std::max(1, getIndexSets()); m++) mats.push_back(mat)
PreviewMaterialCount(mesh) == Max(1, mesh.indexSets)
PreviewMaterial(mesh) == IF mesh.hasNormals THEN "litMat" ELSE "unlitMat"
PreviewMaterials(mesh) ==
    [m \in 1..PreviewMaterialCount(mesh) |-> PreviewMaterial(mesh)]

\* RenderPass::draw(mesh, transform, materials) accepts the call only when the
\* materials match the mesh's index sets.
DrawShapeOK(mesh, mats) ==
    Len(mats) = (IF mesh.indexSets = 0 THEN 1 ELSE mesh.indexSets)

\* The "Index sets" node without the test for no index sets.
IndexSetLabelsNoNone(mesh) == [i \in 1..mesh.indexSets |-> "Index size"]

\* The "Index sets" tree node of a mesh panel.
IndexSetLabels(mesh) ==
    IF mesh.indexSets = 0 THEN <<"None">>
    ELSE [i \in 1..mesh.indexSets |-> "Index size"]

\* Inspector::showMesh(mesh) for registry entry i; node is "closed", "open"
\* or "indexSets" (open with the "Index sets" node expanded).
showMesh(g, i, node) ==
    IF node = "closed" THEN g
    ELSE LET mesh == meshes[i]
             p == PreviewPass(g)
             mats == PreviewMaterials(mesh)
         IN [p.g EXCEPT
                !.panels = Append(@, [kind |-> "mesh", index |-> i]),
                !.labels = IF node = "indexSets"
                           THEN Append(@, [kind |-> "mesh", index |-> i,
                                           text |-> IndexSetLabels(mesh)])
                           ELSE @,
                !.passes = Append(@, [pass |-> p.pass,
                                      kind |-> "mesh",
                                      mesh |-> mesh,
                                      transform |-> MeshTransform(mesh),
                                      materials |-> mats,
                                      shapeOK |-> DrawShapeOK(mesh, mats)]),
                !.images = Append(@, [texture |-> p.tex.name, by |-> "mesh"])]

\* ------------------------------------------------------------ showShader
\* std::weak_ptr<Shader>(shader->shared_from_this())
WeakRef(addr) == Ref([addr |-> addr, uid |-> shaderHeap[addr][1].uid])

\* lock() that resolves whatever object lives at the address.
LockByAddress(w) ==
    IF w # NULL /\ shaderHeap[w[1].addr] # NULL THEN w[1].addr ELSE NullAddr

\* weak_ptr::lock(): the address of the object, or null when it is gone.
Lock(w) ==
    IF w # NULL /\ shaderHeap[w[1].addr] # NULL
       /\ shaderHeap[w[1].addr][1].uid = w[1].uid
    THEN w[1].addr ELSE NullAddr

\* Mesh::create().withSphere().build(): one index set, with normals.
SphereMesh ==
    [indexSets |-> 1, hasNormals |-> TRUE,
     bmin |-> <<-1, -1, -1>>, bmax |-> <<1, 1, 1>>]

\* An Edit button that opens a view only when none is open.
EditButtonKeepsTarget(g, addr) ==
    [g EXCEPT !.shaderEdit = IF @ = NULL THEN WeakRef(addr) ELSE @,
              !.pressed = addr]

\* if (ImGui::Button("Edit")) shaderEdit = weak_ptr of this shader.
EditButton(g, addr) ==
    [g EXCEPT !.shaderEdit = WeakRef(addr), !.pressed = addr]

\* Inspector::showShader(shader) for the shader at addr; node is "closed",
\* "open" or "edit" (open with the Edit button pressed).
showShader(g, addr, node) ==
    IF node = "closed" THEN g
    ELSE LET ge == IF node = "edit" THEN EditButton(g, addr) ELSE g
             p == PreviewPass(ge)
         IN [p.g EXCEPT
                !.panels = Append(@, [kind |-> "shader", index |-> addr]),
                !.passes = Append(@, [pass |-> p.pass,
                                      kind |-> "shader",
                                      mesh |-> SphereMesh,
                                      transform |-> <<[op |-> "eulerAngleY"]>>,
                                      materials |-> <<[shader |-> addr]>>,
                                      shapeOK |-> TRUE]),
                !.images = Append(@, [texture |-> p.tex.name, by |-> "shader"])]

\* showSpriteAtlas / showFramebufferObject: a tree node per entry.
showOther(g, kind, i) ==
    [g EXCEPT !.panels = Append(@, [kind |-> kind, index |-> i])]

\* ------------------------------------------------------------ editShader
\* Shader::getSource(resource): the text of a stage's source.
getSource(source) == source
\* Shader::precompile(text): the text with its includes expanded.
precompile(text) == <<"precompiled", text>>

InRange(v, i) == 0 <= i /\ i < Len(v)
\* v[i] of a 0-based std::vector; out of range is undefined behaviour.
At(v, i) == IF InRange(v, i) THEN v[i + 1] ELSE <<"garbage">>
SetAt(v, i, x) == IF InRange(v, i) THEN [v EXCEPT ![i + 1] = x] ELSE v

\* The update condition of line 511 without its Compile clause.
StoreTextNotOnCompile(compile, updatedShader, updatedPrecompile, pre) ==
    \/ (updatedShader /\ ~pre)
    \/ (updatedPrecompile /\ pre)

\* if ((compile && !showPrecompiled) || (updatedShader && !showPrecompiled)
\*     || (updatedPrecompile && showPrecompiled))
StoreText(compile, updatedShader, updatedPrecompile, pre) ==
    \/ (compile /\ ~pre)
    \/ (updatedShader /\ ~pre)
    \/ (updatedPrecompile /\ pre)

\* One use of shaderCode[i] with the vector's size at that moment.
Indexed(v, i) == [i |-> i, size |-> Len(v)]

\* Inspector::editShader(shader) for the shader at addr with the user's
\* input e = [combo, toggle, compile, typed, close]: the statics, the
\* shader's sources and whether shaderEdit is reset, after the call.
\* e.combo is the item picked in the stage combo (-1: none), e.typed the
\* text the editor holds after the user typed in it (NULL: no typing).
editShader(addr, e) ==
    LET shaderSources == shaderHeap[addr][1].sources
        n == Len(shaderSources)
        reload == shaderRef # addr
        code0 == IF reload
                 THEN [i \in 1..n |-> getSource(shaderSources[i].source)]
                 ELSE shaderCode
        sel0 == IF reload THEN 0 ELSE selectedShader
        text0 == IF reload THEN At(code0, sel0) ELSE textEditor.text
        pre0 == IF reload THEN FALSE ELSE showPrecompiled
        lastSelectedShader == sel0
        updatedShader == e.combo \in 0..(n - 1)
        sel1 == Min(IF updatedShader THEN e.combo ELSE sel0, n)
        updatedPrecompile == e.toggle
        pre1 == IF updatedPrecompile THEN ~pre0 ELSE pre0
        store == StoreText(e.compile, updatedShader, updatedPrecompile, pre1)
        code1 == IF store THEN SetAt(code0, lastSelectedShader, text0)
                 ELSE code0
        built == [i \in 1..n |-> [type |-> shaderSources[i].type,
                                  source |-> At(code1, i - 1)]]
        show == updatedShader \/ updatedPrecompile
        text1 == IF ~show THEN text0
                 ELSE IF pre1 THEN precompile(At(code1, sel1))
                 ELSE At(code1, sel1)
        readOnly1 == IF show THEN pre1 ELSE textEditor.readOnly
        text2 == IF e.typed # NULL /\ ~readOnly1 THEN e.typed ELSE text1
        indexed ==
            (IF reload THEN <<Indexed(code0, sel0)>> ELSE <<>>)
            \o (IF store THEN <<Indexed(code0, lastSelectedShader)>> ELSE <<>>)
            \o (IF e.compile THEN [i \in 1..n |-> Indexed(code1, i - 1)]
                ELSE <<>>)
            \o (IF show THEN <<Indexed(code1, sel1)>> ELSE <<>>)
    IN [shaderRef |-> addr,
        shaderCode |-> code1,
        selectedShader |-> sel1,
        showPrecompiled |-> pre1,
        textEditor |-> [text |-> text2, readOnly |-> readOnly1],
        fault |-> \E k \in 1..Len(indexed) :
                      ~(0 <= indexed[k].i /\ indexed[k].i < indexed[k].size),
        compiled |-> e.compile,
        sources |-> IF e.compile THEN built ELSE shaderSources,
        stored |-> store,
        reset |-> e.close,
        call |-> [reload |-> reload, last |-> lastSelectedShader,
                  text |-> text0, stored |-> store, compiled |-> e.compile,
                  built |-> IF e.compile THEN built ELSE <<>>,
                  indexed |-> indexed, closed |-> e.close]]

\* ------------------------------------------------------------ gui()
RECURSIVE showShaders(_, _, _)
showShaders(g, i, nodes) ==
    IF i > Len(shaders) THEN g
    ELSE showShaders(showShader(g, shaders[i], nodes[i]), i + 1, nodes)

RECURSIVE showTextures(_, _, _)
showTextures(g, i, nodes) ==
    IF i > Len(textures) THEN g
    ELSE showTextures(showTexture(g, i, nodes[i]), i + 1, nodes)

RECURSIVE showMeshes(_, _, _)
showMeshes(g, i, nodes) ==
    IF i > Len(meshes) THEN g
    ELSE showMeshes(showMesh(g, i, nodes[i]), i + 1, nodes)

RECURSIVE showOthers(_, _, _, _)
showOthers(g, kind, i, n) ==
    IF i > n THEN g ELSE showOthers(showOther(g, kind, i), kind, i + 1, n)

Placeholder(g, kind, text) ==
    [g EXCEPT !.labels = Append(@, [kind |-> kind, index |-> 0,
                                    text |-> <<text>>])]

\* if (ImGui::CollapsingHeader("Shaders")) { ... }
ShadersSection(g, in) ==
    IF ~in.shadersHdr THEN g
    ELSE LET g1 == showShaders(g, 1, in.shaderNode)
         IN IF shaders = <<>> THEN Placeholder(g1, "shaders", "No shaders")
            ELSE g1

\* if (ImGui::CollapsingHeader("Textures")) { ... }
TexturesSection(g, in) ==
    IF ~in.texturesHdr THEN g
    ELSE LET g1 == showTextures(g, 1, in.textureNode)
         IN IF textures = <<>> THEN Placeholder(g1, "textures", "No textures")
            ELSE g1

\* if (ImGui::CollapsingHeader("Meshes")) { ... }
MeshesSection(g, in) ==
    IF ~in.meshesHdr THEN g
    ELSE LET g1 == showMeshes(g, 1, in.meshNode)
         IN IF meshes = <<>> THEN Placeholder(g1, "meshes", "No meshes")
            ELSE g1

\* The sprite-atlas and framebuffer-object sections: skipped, header
\* included, when the registry is empty.
OtherSections(g, in) ==
    LET g1 == IF spriteAtlases # <<>> /\ in.atlasesHdr
              THEN showOthers(g, "atlas", 1, Len(spriteAtlases)) ELSE g
    IN IF framebufferObjects # <<>> /\ in.fbosHdr
       THEN showOthers(g1, "fbo", 1, Len(framebufferObjects)) ELSE g1

\* The resource sections of gui() in order.
GuiSections(in) ==
    OtherSections(MeshesSection(TexturesSection(
        ShadersSection(GuiState, in), in), in), in)

\* What gui() leaves unchanged when shaderEdit does not resolve.
NoEditView ==
    /\ UNCHANGED <<shaderRef, shaderCode, selectedShader, showPrecompiled,
                   textEditor, shaderCodeFrom, fault, shaderHeap>>

\* Inspector::gui(useWindow) with the user's input `in` for this frame.
gui(in) ==
    LET plots == GuiPlots(in.performance, in.memory)
        g == GuiSections(in)
        shaderEditPtr == Lock(g.shaderEdit)
    IN /\ Len(frameTextures) + Len(g.handed) <= MaxFramePreviews
       /\ data' = IF plots = <<>> THEN data ELSE plots[Len(plots)].values
       /\ usedTextures' = g.usedTextures
       /\ offscreenTextures' = g.offscreenTextures
       /\ framebuffer' = g.framebuffer
       /\ worldLights' = g.worldLights
       /\ IF shaderEditPtr # NullAddr
          THEN LET ed == editShader(shaderEditPtr, in.edit)
               IN /\ shaderRef' = ed.shaderRef
                  /\ shaderCode' = ed.shaderCode
                  /\ selectedShader' = ed.selectedShader
                  /\ showPrecompiled' = ed.showPrecompiled
                  /\ textEditor' = ed.textEditor
                  /\ shaderCodeFrom' =
                        IF ed.call.reload
                        THEN Ref(shaderHeap[shaderEditPtr][1].uid)
                        ELSE shaderCodeFrom
                  /\ fault' = (fault \/ ed.fault)
                  /\ shaderHeap' = [shaderHeap EXCEPT
                                      ![shaderEditPtr][1].sources = ed.sources]
                  /\ shaderEdit' = IF ed.reset THEN NULL ELSE g.shaderEdit
          ELSE /\ NoEditView
               /\ shaderEdit' = g.shaderEdit
       /\ ui' = [headers |-> [h \in DOMAIN NoHeaders |-> in[h]],
                 plots |-> plots,
                 panels |-> g.panels,
                 labels |-> g.labels,
                 passes |-> g.passes,
                 images |-> g.images,
                 inits |-> g.inits,
                 pressed |-> g.pressed,
                 editTarget |-> g.shaderEdit,
                 editView |-> shaderEditPtr,
                 edit |-> IF shaderEditPtr # NullAddr
                          THEN editShader(shaderEditPtr, in.edit).call
                          ELSE NoEditCall]
       /\ frameTextures' = frameTextures \o g.handed
       /\ frameAllocs' = frameAllocs + g.allocs
       /\ maxRequests' = Max(maxRequests, Len(frameTextures) + Len(g.handed))
       /\ UNCHANGED <<frames, frameCount, stats, milliseconds, recorded,
                      nextUid, shaders, textures, meshes, spriteAtlases,
                      framebufferObjects, poolAtFrameStart>>

\* ------------------------------------------------------------ registries
Addrs == 1..MaxAddrs

\* A shader object as Shader::create()...build() leaves it: one source per
\* stage, in stage order.
NewShader(uid, stages) ==
    [uid |-> uid,
     sources |-> [i \in 1..Len(stages) |->
                     [type |-> stages[i], source |-> <<stages[i], uid>>]]]

\* A shader is built and registered at a free address.
createShader(addr, stages) ==
    /\ shaderHeap[addr] = NULL
    /\ nextUid < MaxShaderObjects
    /\ shaderHeap' = [shaderHeap EXCEPT ![addr] = Ref(NewShader(nextUid, stages))]
    /\ nextUid' = nextUid + 1
    /\ shaders' = Append(shaders, addr)
    /\ UNCHANGED <<statVars, poolVars, textures, meshes, spriteAtlases,
                   framebufferObjects, editVars, frameVars, ui>>

\* The last owner releases a shader: it leaves the registry and every weak
\* reference to it expires.
destroyShader(addr) ==
    /\ shaderHeap[addr] # NULL
    /\ shaderHeap' = [shaderHeap EXCEPT ![addr] = NULL]
    /\ shaders' = SelectSeq(shaders, LAMBDA a : a # addr)
    /\ UNCHANGED <<statVars, poolVars, nextUid, textures, meshes,
                   spriteAtlases, framebufferObjects, editVars, frameVars, ui>>

\* The extent of a bounding box on one axis, lo <= hi, within a coordinate
\* bound.
Intervals(m) == {p \in ((-m)..m) \X ((-m)..m) : p[1] <= p[2]}

\* The meshes a program can build: the bounding box has min <= max on every
\* axis.
Boxes ==
    {<<<<x[1], y[1], z[1]>>, <<x[2], y[2], z[2]>>>> :
        x \in Intervals(MaxCoord), y \in Intervals(MaxCoordYZ),
        z \in Intervals(MaxCoordYZ)}

MeshInputs ==
    {[indexSets |-> n, hasNormals |-> h, bmin |-> b[1], bmax |-> b[2]] :
        n \in 0..MaxIndexSets, h \in BOOLEAN, b \in Boxes}

\* ------------------------------------------------------------ Init
\* Inspector::Inspector(n, sdlRenderer): three vectors of n value-initialised
\* elements, frameCount 0, no framebuffer, no scratch texture, no edit view;
\* the function statics of editShader as initialised on first use.
InspectorCtor(n) ==
    /\ frames = n
    /\ frameCount = 0
    /\ stats = [k \in 0..(n - 1) |-> ZeroStats]
    /\ milliseconds = [k \in 0..(n - 1) |-> 0]
    /\ data = [k \in 0..(n - 1) |-> 0]
    /\ recorded = <<>>
    /\ usedTextures = 0
    /\ offscreenTextures = <<>>
    /\ framebuffer = NULL
    /\ worldLights = [ambient |-> NULL, lights |-> <<>>]
    /\ shaderEdit = NULL
    /\ shaderRef = NullAddr
    /\ shaderCode = <<>>
    /\ selectedShader = 0
    /\ showPrecompiled = FALSE
    /\ textEditor = [text |-> <<>>, readOnly |-> FALSE]
    /\ shaderCodeFrom = NULL
    /\ fault = FALSE
    /\ ui = NoUi
    /\ frameTextures = <<>>
    /\ frameAllocs = 0
    /\ poolAtFrameStart = 0
    /\ maxRequests = 0

\* The registries of a program that built nShaders shaders, the meshes ms,
\* the textures tx, the sprite atlases at and the framebuffer objects fb
\* before the first frame.
Registered(nShaders, ms, tx, at, fb) ==
    /\ shaderHeap = [a \in Addrs |->
                        IF a <= nShaders
                        THEN Ref(NewShader(a - 1, <<"Vertex", "Fragment">>))
                        ELSE NULL]
    /\ nextUid = nShaders
    /\ shaders = [i \in 1..nShaders |-> i]
    /\ textures = tx
    /\ meshes = ms
    /\ spriteAtlases = at
    /\ framebufferObjects = fb

\* ------------------------------------------------------------ inputs
NoEdit ==
    [combo |-> -1, toggle |-> FALSE, compile |-> FALSE, typed |-> NULL,
     close |-> FALSE]

AllClosed(n) == [i \in 1..n |-> "closed"]

\* A frame's input with every header collapsed.
Collapsed ==
    [performance |-> FALSE, memory |-> FALSE, shadersHdr |-> FALSE,
     texturesHdr |-> FALSE, meshesHdr |-> FALSE, atlasesHdr |-> FALSE,
     fbosHdr |-> FALSE, shaderNode |-> AllClosed(Len(shaders)),
     textureNode |-> AllClosed(Len(textures)),
     meshNode |-> AllClosed(Len(meshes)), edit |-> NoEdit]

\* ------------------------------------------------------------ statistics
\* The ring buffer and its plots: any capacity, any sequence of update() and
\* gui() calls with the Performance and Memory headers open or collapsed.
InitStats == \E n \in 1..MaxFrames : InspectorCtor(n) /\ Registered(0, <<>>, <<>>, <<>>, <<>>)

UpdateFrame == \E f \in FrameInputs : update(f[1], f[2])

GuiStats ==
    \E p \in BOOLEAN, m \in BOOLEAN :
        gui([Collapsed EXCEPT !.performance = p, !.memory = m])

NextStats == UpdateFrame \/ GuiStats

SpecStats == InitStats /\ [][NextStats]_vars

\* The value a series plots for one recorded <<RenderStats, deltaTime>> pair.
RecordedValue(series, r) ==
    CASE series = "Milliseconds" -> r[2]
      [] series = "Draw calls" -> r[1].drawCalls
      [] series = "State changes" ->
            r[1].stateChangesShader + r[1].stateChangesMaterial
            + r[1].stateChangesMesh
      [] series = "Mesh MB" -> r[1].meshBytes
      [] series = "Texture MB" -> r[1].textureBytes

\* The number of update() calls whose records are still in the buffer.
Valid == Min(frameCount, frames)

\* The pair call j (0-based) recorded, for a call still in the buffer.
RecordOfCall(j) == recorded[j - (frameCount - Len(recorded)) + 1]

\* The calls that wrote slot k.
CallsOfSlot(k) == {j \in 0..(frameCount - 1) : j % frames = k}
LatestCall(k) == CHOOSE j \in CallsOfSlot(k) : \A i \in CallsOfSlot(k) : i <= j

SlotsAsRecorded ==
    /\ Len(recorded) = Valid
    /\ \A k \in 0..(frames - 1) :
         IF CallsOfSlot(k) = {}
         THEN stats[k] = ZeroStats /\ milliseconds[k] = 0
         ELSE /\ stats[k] = RecordOfCall(LatestCall(k))[1]
              /\ milliseconds[k] = RecordOfCall(LatestCall(k))[2]

UpdateWritesOneSlot ==
    frameCount' # frameCount =>
        /\ frameCount' = frameCount + 1
        /\ stats'[frameCount % frames] = recorded'[Len(recorded')][1]
        /\ milliseconds'[frameCount % frames] = recorded'[Len(recorded')][2]
        /\ \A k \in 0..(frames - 1) :
             k # frameCount % frames =>
                stats'[k] = stats[k] /\ milliseconds'[k] = milliseconds[k]

\* C1: update() stores the frame's record and milliseconds at slot
\* frameCount mod frames and then increments frameCount: every slot holds
\* what the latest call that maps to it recorded, or the zero initial record
\* when no call did, and a call changes no other slot.
C1_UpdateRing == []SlotsAsRecorded /\ [][UpdateWritesOneSlot]_vars

\* C1 witness: the buffer has wrapped twice and its slots differ.
C1_Witness ==
    /\ frames = 2 /\ frameCount = 2 * frames + 1
    /\ stats[0] # stats[1]

\* C2: the average a plot shows is the sum of the last min(frameCount, frames)
\* recorded values over min(frameCount, frames), and 0 before any update().
C2_RunningAverage ==
    \A i \in 1..Len(ui.plots) :
        LET p == ui.plots[i]
            vals == [j \in 1..Len(recorded) |-> RecordedValue(p.name, recorded[j])]
        IN IF frameCount = 0 THEN p.avg = <<0, 1>>
           ELSE /\ p.avg[2] = Valid
                /\ Len(vals) = Valid
                /\ p.avg[1] = SumSeq(vals)

\* C2 witness: five plots drawn while the buffer is only partly filled.
C2_Witness ==
    /\ Len(ui.plots) = 5
    /\ 0 < frameCount /\ frameCount < frames
    /\ \A i \in 1..5 : ui.plots[i].avg[1] > 0 /\ ui.plots[i].avg[2] = frameCount

\* Plot position i (0-based) of a plot shows slot (frameCount + i) mod frames.
PlotWalk(p) ==
    /\ Len(p.read) = frames /\ Len(p.pos) = frames
    /\ \A i \in 0..(frames - 1) :
         /\ p.read[i + 1] = (frameCount + i) % frames
         /\ p.pos[i + 1] \in 0..(frames - 1)
         /\ p.pos[i + 1] = i
         /\ p.values[i] = SeriesValue(p.name, p.read[i + 1])

\* The recorded values close the plot in the order recorded, newest last.
PlotEndsWithRecorded(p) ==
    \A j \in 1..Len(recorded) :
        p.values[frames - Len(recorded) + j - 1] = RecordedValue(p.name, recorded[j])

\* The first slot read holds the oldest record still in the buffer.
FirstReadIsOldest(p) ==
    frameCount > 0 =>
        /\ stats[p.read[1]] = recorded[1][1]
        /\ milliseconds[p.read[1]] = recorded[1][2]

\* C3 as stated: for every frameCount the walk starts at the oldest valid
\* record and shows the recorded values in order.
C3_Original ==
    \A i \in 1..Len(ui.plots) :
        /\ PlotWalk(ui.plots[i])
        /\ PlotEndsWithRecorded(ui.plots[i])
        /\ FirstReadIsOldest(ui.plots[i])

\* C3 amended: plot position i shows slot (frameCount + i) mod frames and the
\* recorded values close the plot in order, newest last; the first slot read
\* holds the oldest record once frameCount >= frames, and before that the
\* first frames - frameCount positions show never-written zero slots.
C3_ChronologicalPlot ==
    \A i \in 1..Len(ui.plots) :
        LET p == ui.plots[i]
        IN /\ PlotWalk(p)
           /\ PlotEndsWithRecorded(p)
           /\ frameCount >= frames => FirstReadIsOldest(p)
           /\ frameCount < frames =>
                \A k \in 0..(frames - frameCount - 1) :
                    /\ p.values[k] = 0
                    /\ stats[p.read[k + 1]] = ZeroStats
                    /\ milliseconds[p.read[k + 1]] = 0

\* C3 witness: a plot of a wrapped buffer whose values differ, oldest first.
C3_Witness ==
    /\ frames = 2 /\ frameCount = 3
    /\ Len(ui.plots) >= 1
    /\ ui.plots[1].values[0] = RecordedValue("Milliseconds", recorded[1])
    /\ ui.plots[1].values[0] # ui.plots[1].values[1]

\* ------------------------------------------------------------ previews
\* The scratch pool and the preview framebuffer: a program with one shader
\* and MaxMeshes meshes, any sequence of frames, any choice of expanded
\* shader and mesh panels in each gui() call.
PoolMesh ==
    [indexSets |-> 0, hasNormals |-> FALSE,
     bmin |-> <<0, 0, 0>>, bmax |-> <<1, 1, 1>>]

InitPool ==
    InspectorCtor(1) /\ Registered(1, [i \in 1..MaxMeshes |-> PoolMesh], <<>>, <<>>, <<>>)

UpdatePool == update(StatsOf(1), 8)

GuiPool ==
    \E sn \in [1..Len(shaders) -> {"closed", "open"}],
       mn \in [1..Len(meshes) -> {"closed", "open"}] :
        gui([Collapsed EXCEPT !.shadersHdr = TRUE, !.meshesHdr = TRUE,
                              !.shaderNode = sn, !.meshNode = mn])

NextPool == UpdatePool \/ GuiPool

SpecPool == InitPool /\ [][NextPool]_vars

Distinct(seq) == \A i, j \in 1..Len(seq) : i # j => seq[i] # seq[j]

\* C4 as stated: a pool of N >= 1 textures that serves M > N requests in one
\* frame allocates at most N textures and never holds more than N.
C4_Original ==
    (poolAtFrameStart >= 1 /\ Len(frameTextures) > poolAtFrameStart) =>
        /\ frameAllocs <= poolAtFrameStart
        /\ Len(offscreenTextures) <= poolAtFrameStart

\* C4 amended: a pool holding N textures when a frame starts that serves M
\* requests in the frame reuses pooled textures by index for the first
\* min(M, N) requests and allocates exactly max(0, M - N) new ones, so it then
\* holds max(N, M) textures; the pool never holds more textures than the
\* largest number of requests made within one frame.
C4_PoolGrowsToHighWater ==
    LET N == poolAtFrameStart
        M == Len(frameTextures)
    IN /\ frameAllocs = Max(0, M - N)
       /\ Len(offscreenTextures) = Max(N, M)
       /\ Len(offscreenTextures) <= maxRequests
       /\ \A k \in 1..Min(M, N) : frameTextures[k] = offscreenTextures[k]

\* C4 witness: a frame that made more requests than the pool held.
C4_Witness ==
    /\ poolAtFrameStart = 1
    /\ Len(frameTextures) = 3
    /\ frameAllocs = 2

\* The single light initFramebuffer() adds.
PreviewLights ==
    [ambient |-> <<2, 2, 2>>, lights |-> <<PointLight(<<0, 0, 4>>)>>]

PreviewLightingOnce ==
    /\ ui.inits <= 1
    /\ framebuffer = NULL =>
          worldLights = [ambient |-> NULL, lights |-> <<>>] /\ ui.passes = <<>>
    /\ framebuffer # NULL =>
          /\ worldLights = PreviewLights
          /\ framebuffer[1].name = "SRE Inspector Framebufferobject"
    /\ \A i \in 1..Len(ui.passes) :
          LET p == ui.passes[i].pass
          IN /\ p.framebuffer # NULL
             /\ p.framebuffer[1].name = "SRE Inspector Framebufferobject"
             /\ p.framebuffer[1].texture.name = ui.images[i].texture
             /\ p.worldLights = PreviewLights
             /\ p.clear /\ ~p.gui
    /\ ui.passes # <<>> =>
          framebuffer = ui.passes[Len(ui.passes)].pass.framebuffer

FramebufferKept ==
    framebuffer # NULL =>
        /\ framebuffer' # NULL
        /\ worldLights' = worldLights
        /\ ui' # NoUi => ui'.inits = 0

\* C9: the preview framebuffer and its lighting are created by the first
\* preview and never again: the light set holds one point light at (0,0,4),
\* and every pass targets the one framebuffer with the texture handed to that
\* preview attached, clear enabled and the GUI overlay disabled.
C9_FramebufferOnce == []PreviewLightingOnce /\ [][FramebufferKept]_vars

\* C9 witness: a shader and a mesh preview drawn in a later frame than the
\* one that created the framebuffer.
C9_Witness ==
    /\ frameCount >= 2
    /\ Len(ui.passes) = 2 /\ ui.inits = 0
    /\ ui.passes[1].kind = "shader" /\ ui.passes[2].kind = "mesh"
    /\ Len(worldLights.lights) = 1

\* C10: the k-th request of a frame returns pool entry k - 1, allocating it
\* only when the pool has no such entry; so usedTextures <= pool size, the
\* textures of one frame are pairwise distinct, a frame with no more
\* requests than the pool holds allocates nothing, and the pool size is the
\* largest number of requests made between two update() calls.
C10_HandedByIndex ==
    /\ usedTextures = Len(frameTextures)
    /\ usedTextures <= Len(offscreenTextures)
    /\ \A k \in 1..Len(frameTextures) : frameTextures[k] = offscreenTextures[k]
    /\ Distinct(frameTextures)
    /\ Distinct(offscreenTextures)
    /\ Len(frameTextures) <= poolAtFrameStart => frameAllocs = 0
    /\ Len(offscreenTextures) = maxRequests

\* C10 witness: a frame that reuses two pooled textures and allocates none,
\* after a frame that needed three.
C10_Witness ==
    /\ Len(offscreenTextures) = 3
    /\ Len(frameTextures) = 2
    /\ frameAllocs = 0
    /\ usedTextures = 2

\* ------------------------------------------------------------ mesh preview
\* The preview of one mesh: a program with a single mesh of any index-set
\* count, with or without normals, with any bounding box in the coordinate
\* bounds, its panel expanded in successive gui() calls.
InitMesh == \E m \in MeshInputs : InspectorCtor(1) /\ Registered(0, <<m>>, <<>>, <<>>, <<>>)

GuiMesh ==
    gui([Collapsed EXCEPT !.meshesHdr = TRUE, !.meshNode = <<"open">>])

NextMesh == GuiMesh

SpecMesh == InitMesh /\ [][NextMesh]_vars

MeshPasses == {i \in 1..Len(ui.passes) : ui.passes[i].kind = "mesh"}

\* C6: the mesh preview draws with max(1, index-set count) materials, all the
\* lit material when the mesh has normals and the unlit one otherwise, so the
\* draw's shape rule is met.
C6_PreviewMaterials ==
    \A i \in MeshPasses :
        LET d == ui.passes[i]
            want == IF d.mesh.indexSets >= 1 THEN d.mesh.indexSets ELSE 1
        IN /\ Len(d.materials) = want
           /\ \A m \in 1..Len(d.materials) :
                d.materials[m] = (IF d.mesh.hasNormals THEN "litMat" ELSE "unlitMat")
           /\ d.shapeOK

\* C6 witness: a preview of a mesh without index sets, and with normals.
C6_Witness ==
    \E i \in MeshPasses :
        /\ ui.passes[i].mesh.indexSets = 0
        /\ ui.passes[i].mesh.hasNormals
        /\ ui.passes[i].materials = <<"litMat">>

\* A transform's factors applied to coordinate x of axis k, rightmost first;
\* the rotation about the Y axis is left out.
RECURSIVE ApplyFactors(_, _, _)
ApplyFactors(factors, k, x) ==
    IF factors = <<>> THEN x
    ELSE LET inner == ApplyFactors(Tail(factors), k, x)
             f == Head(factors)
         IN CASE f.op = "scale" -> RMul(f.by, inner)
              [] f.op = "translate" -> RAdd(inner, f.by[k])
              [] f.op = "eulerAngleY" -> inner

LargestExtent(mesh) ==
    CHOOSE e \in {mesh.bmax[k] - mesh.bmin[k] : k \in 1..3} :
        \A k \in 1..3 : mesh.bmax[k] - mesh.bmin[k] <= e

\* The preview transform centres the box and fits it to [-1,1]^3.
FitsUnitCube(d) ==
    LET t == d.transform
        lo(k) == ApplyFactors(t, k, <<d.mesh.bmin[k], 1>>)
        hi(k) == ApplyFactors(t, k, <<d.mesh.bmax[k], 1>>)
    IN /\ <<t[1].op, t[2].op, t[3].op>> = <<"eulerAngleY", "scale", "translate">>
       /\ \A k \in 1..3 :
            REq(t[3].by[k], <<-(d.mesh.bmin[k] + d.mesh.bmax[k]), 2>>)
       /\ REq(t[2].by, <<2, LargestExtent(d.mesh)>>)
       /\ REq(RMul(t[2].by, <<LargestExtent(d.mesh), 2>>), <<1, 1>>)
       /\ \A k \in 1..3 :
            /\ REq(RAdd(lo(k), hi(k)), <<0, 1>>)
            /\ RLeq(<<-1, 1>>, lo(k)) /\ RLeq(hi(k), <<1, 1>>)
       /\ \E k \in 1..3 : REq(hi(k), <<1, 1>>) /\ REq(lo(k), <<-1, 1>>)

\* C7 as stated: every mesh preview fits, whatever the bounding box.
C7_Original == \A i \in MeshPasses : FitsUnitCube(ui.passes[i])

\* C7 amended: for every bounding box whose largest extent is positive the
\* translation by -(min+max)/2 followed by the scale 2/largest extent centres
\* the box at the origin and fits it exactly to [-1,1]^3 (before the rotation
\* about the Y axis), and scale times half the largest extent is 1; for a box
\* of zero extent the scale is 2/0, not a finite number.
C7_AutoFit ==
    \A i \in MeshPasses :
        IF LargestExtent(ui.passes[i].mesh) > 0
        THEN FitsUnitCube(ui.passes[i])
        ELSE ~RFinite(ui.passes[i].transform[2].by)

\* C7 witness: the box (-2,-1,-1)..(2,1,1) previewed with scale 1/2.
C7_Witness ==
    \E i \in MeshPasses :
        /\ ui.passes[i].mesh.bmin = <<-2, -1, -1>>
        /\ ui.passes[i].mesh.bmax = <<2, 1, 1>>
        /\ REq(ui.passes[i].transform[2].by, <<1, 2>>)

\* ------------------------------------------------------------ edit view
\* The edit view's target within one frame: shaders are built and destroyed
\* at any time, and in each gui() call the user expands shader panels,
\* presses Edit, or closes the edit window.
InitEdit == InspectorCtor(1) /\ Registered(0, <<>>, <<>>, <<>>, <<>>)

CreateShader == \E a \in Addrs : createShader(a, <<"Vertex", "Fragment">>)
DestroyShader == \E a \in Addrs : destroyShader(a)

GuiEdit ==
    \E sn \in [1..Len(shaders) -> {"closed", "open", "edit"}],
       close \in BOOLEAN :
        gui([Collapsed EXCEPT !.shadersHdr = TRUE, !.shaderNode = sn,
                              !.edit = [NoEdit EXCEPT !.close = close]])

NextEdit == CreateShader \/ DestroyShader \/ GuiEdit

SpecEdit == InitEdit /\ [][NextEdit]_vars

\* A step of gui(): the registries and the frame counter stay, the drawn
\* frame is replaced.
GuiStep ==
    /\ ui' # ui
    /\ frameCount' = frameCount
    /\ <<shaders, textures, meshes, spriteAtlases, framebufferObjects>>'
         = <<shaders, textures, meshes, spriteAtlases, framebufferObjects>>

StaticsKept ==
    <<shaderRef, shaderCode, selectedShader, showPrecompiled, textEditor,
      shaderCodeFrom, fault>>'
        = <<shaderRef, shaderCode, selectedShader, showPrecompiled,
            textEditor, shaderCodeFrom, fault>>

\* C5 as stated: once the edited shader is destroyed the next gui() call
\* shows no edit view, whatever the user does in it.
C5_Original ==
    [][(GuiStep /\ shaderEdit # NULL /\ Lock(shaderEdit) = NullAddr)
          => ui'.editView = NullAddr]_vars

\* C5 amended: once the edited shader is destroyed, the next gui() call in
\* which Edit is not pressed on a live shader finds the weak reference
\* expired, calls editShader for no shader and shows no edit view; and no
\* gui() call ever shows a panel or an edit view of a destroyed shader.
C5_ExpiredViewCloses ==
    [][GuiStep =>
        /\ (shaderEdit # NULL /\ Lock(shaderEdit) = NullAddr
            /\ ui'.editTarget = shaderEdit)
              => (ui'.editView = NullAddr /\ StaticsKept /\ shaderEdit' = shaderEdit)
        /\ ui'.editView # NullAddr =>
              /\ shaderHeap[ui'.editView] # NULL
              /\ ui'.editTarget =
                    Ref([addr |-> ui'.editView,
                         uid |-> shaderHeap[ui'.editView][1].uid])
        /\ \A i \in 1..Len(ui'.panels) :
              ui'.panels[i].kind = "shader" =>
                  shaderHeap[ui'.panels[i].index] # NULL
        /\ fault' = fault]_vars

\* C5 witness: gui() has run with the edit view's shader destroyed, and
\* another shader now lives at its address.
C5_Witness ==
    /\ shaderEdit # NULL
    /\ Lock(shaderEdit) = NullAddr
    /\ shaderHeap[shaderEdit[1].addr] # NULL
    /\ ui.editTarget = shaderEdit
    /\ ui.editView = NullAddr
    /\ ui.panels # <<>>

\* ------------------------------------------------------------ panels
\* The resource sections with registries that may be empty: a program with
\* or without a shader, meshes, a texture, a sprite atlas and a framebuffer
\* object, and gui() run before any update() with its headers and tree nodes
\* open or collapsed.
PanelMeshes == {PoolMesh, [PoolMesh EXCEPT !.indexSets = MaxIndexSets]}

UpTo(S, n) == UNION {[1..k -> S] : k \in 0..n}

InitPanels ==
    \E ns \in 0..1, ms \in UpTo(PanelMeshes, MaxMeshes),
       tx \in UpTo({[name |-> "user", cubemap |-> c] : c \in BOOLEAN}, 1),
       at \in UpTo({"atlas"}, 1), fb \in UpTo({"fbo"}, 1) :
        InspectorCtor(MaxFrames) /\ Registered(ns, ms, tx, at, fb)

GuiPanels ==
    \E plots \in BOOLEAN, hdr \in BOOLEAN, node \in BOOLEAN :
        gui([performance |-> plots, memory |-> plots, shadersHdr |-> hdr,
             texturesHdr |-> hdr, meshesHdr |-> hdr, atlasesHdr |-> hdr,
             fbosHdr |-> hdr,
             shaderNode |-> [i \in 1..Len(shaders) |->
                                IF node THEN "open" ELSE "closed"],
             textureNode |-> [i \in 1..Len(textures) |->
                                 IF node THEN "open" ELSE "closed"],
             meshNode |-> [i \in 1..Len(meshes) |->
                              IF node THEN "indexSets" ELSE "closed"],
             edit |-> NoEdit])

NextPanels == GuiPanels

SpecPanels == InitPanels /\ [][NextPanels]_vars

PanelsOf(u, kind) == {i \in 1..Len(u.panels) : u.panels[i].kind = kind}
HasLabel(u, kind, text) ==
    \E i \in 1..Len(u.labels) :
        u.labels[i].kind = kind /\ u.labels[i].text = <<text>>

\* C8: gui() draws a placeholder for what is missing and calls no panel for
\* it: 'No shaders', 'No textures', 'No meshes' for an empty registry, 'None'
\* for a mesh without index sets, averages of 0 before any update(), nothing
\* for an empty sprite-atlas or framebuffer registry; no vector is indexed
\* out of range.
C8_Placeholders ==
    [][GuiStep =>
        /\ HasLabel(ui', "shaders", "No shaders")
              <=> (shaders = <<>> /\ ui'.headers.shadersHdr)
        /\ PanelsOf(ui', "texture") # {} => textures # <<>>
        /\ HasLabel(ui', "textures", "No textures")
              <=> (textures = <<>> /\ ui'.headers.texturesHdr)
        /\ PanelsOf(ui', "mesh") # {} => meshes # <<>>
        /\ HasLabel(ui', "meshes", "No meshes")
              <=> (meshes = <<>> /\ ui'.headers.meshesHdr)
        /\ PanelsOf(ui', "shader") # {} => shaders # <<>>
        /\ \A i \in 1..Len(ui'.labels) :
              ui'.labels[i].kind = "mesh" =>
                 LET n == meshes[ui'.labels[i].index].indexSets
                 IN /\ n = 0 => ui'.labels[i].text = <<"None">>
                    /\ n > 0 => Len(ui'.labels[i].text) = n
                                /\ \A k \in 1..n : ui'.labels[i].text[k] # "None"
        /\ frameCount = 0 =>
              \A i \in 1..Len(ui'.plots) : ui'.plots[i].avg = <<0, 1>>
        /\ spriteAtlases = <<>> => PanelsOf(ui', "atlas") = {}
        /\ framebufferObjects = <<>> => PanelsOf(ui', "fbo") = {}
        /\ fault' = fault]_vars

\* C8 witness: every registry empty, every header open, before any update().
C8_Witness ==
    /\ frameCount = 0
    /\ shaders = <<>> /\ textures = <<>> /\ meshes = <<>>
    /\ spriteAtlases = <<>> /\ framebufferObjects = <<>>
    /\ HasLabel(ui, "shaders", "No shaders")
    /\ HasLabel(ui, "textures", "No textures")
    /\ HasLabel(ui, "meshes", "No meshes")
    /\ ui.panels = <<>>
    /\ Len(ui.plots) = 5

\* ------------------------------------------------------------ editing
\* The edit view of one shader with a vertex and a fragment stage. ImGui has
\* one active item, so at most one widget reports a press in a gui() call:
\* the user presses Edit, picks a stage in the combo, toggles 'Show
\* precompiled', presses Compile, closes the window, types, or does nothing.
MaxTyped == 2

TypedTexts == {<<"typed", k>> : k \in 1..MaxTyped}

EditEvents(nStages) ==
    {NoEdit}
    \cup {[NoEdit EXCEPT !.combo = k] : k \in 0..(nStages - 1)}
    \cup {[NoEdit EXCEPT !.toggle = TRUE], [NoEdit EXCEPT !.compile = TRUE],
          [NoEdit EXCEPT !.close = TRUE]}
    \cup {[NoEdit EXCEPT !.typed = t] : t \in TypedTexts}

\* A frame's input with the Edit button of the i-th shader pressed.
PressEdit(i) ==
    [Collapsed EXCEPT
        !.shadersHdr = TRUE,
        !.shaderNode = [AllClosed(Len(shaders)) EXCEPT ![i] = "edit"]]

\* A frame's input with the inspector collapsed and one event in the edit
\* window.
EditWindow(ev) == [Collapsed EXCEPT !.edit = ev]

\* The inputs of a frame with one widget press, the edit window's event
\* among events.
OnePress(events) ==
    {PressEdit(i) : i \in 1..Len(shaders)} \cup {EditWindow(ev) : ev \in events}

InitCompile == InspectorCtor(1) /\ Registered(1, <<>>, <<>>, <<>>, <<>>)

GuiCompile == \E in \in OnePress(EditEvents(2)) : gui(in)

NextCompile == GuiCompile

SpecCompile == InitCompile /\ [][NextCompile]_vars

\* C11: a gui() call whose edit view had Compile pressed with the
\* precompiled view off stores the editor's text in the stored source of the
\* stage selected at the start of the call, leaves the other stored sources,
\* and then rebuilds the shader from one stored source per stage, stage i
\* with stored source i in the shader's stage order; with the precompiled
\* view on it rebuilds from the stored sources as they were; a call without
\* a Compile press leaves every shader's sources alone.
C11_CompileStoresThenBuilds ==
    [][GuiStep =>
        LET c == ui'.edit
            a == ui'.editView
            old == shaderHeap[a][1].sources
            new == shaderHeap'[a][1].sources
        IN /\ (a # NullAddr /\ c.compiled) =>
                /\ ~c.reload
                /\ c.text = textEditor.text
                /\ c.last = selectedShader
                /\ Len(new) = Len(old)
                /\ Len(shaderCode') = Len(old)
                /\ \A i \in 1..Len(old) :
                      /\ new[i].type = old[i].type
                      /\ new[i].source = shaderCode'[i]
                /\ \A b \in Addrs \ {a} : shaderHeap'[b] = shaderHeap[b]
                /\ ~showPrecompiled' =>
                      /\ c.stored
                      /\ InRange(shaderCode, selectedShader)
                      /\ shaderCode' =
                           [shaderCode EXCEPT ![selectedShader + 1] =
                                                  textEditor.text]
                /\ showPrecompiled' =>
                      /\ ~c.stored
                      /\ shaderCode' = shaderCode
           /\ ~(a # NullAddr /\ c.compiled) => shaderHeap' = shaderHeap]_vars

\* C11 witness: the fragment stage was selected, the user typed, and Compile
\* with the precompiled view off rebuilt the shader with the typed text as
\* its fragment source and the vertex source it had.
C11_Witness ==
    /\ ui.edit.compiled /\ ui.edit.stored
    /\ ~showPrecompiled
    /\ ui.edit.last = 1
    /\ shaderHeap[1] # NULL
    /\ shaderHeap[1][1].sources[2] =
          [type |-> "Fragment", source |-> <<"typed", 1>>]
    /\ shaderHeap[1][1].sources[1] =
          [type |-> "Vertex", source |-> <<"Vertex", 0>>]

\* ------------------------------------------------------------ one edit view
\* C12: a gui() call shows the edit view of at most one shader, the one
\* shaderEdit resolves to when the panels are done: the shader whose Edit
\* button was pressed in the call, whatever the target was before, else the
\* target the call started with; a view that is not closed stays the target
\* of the next call; closing the window resets shaderEdit at the end of the
\* editShader call, and with shaderEdit reset a call without an Edit press
\* shows no view and leaves the statics of editShader alone.
C12_OneEditView ==
    [][GuiStep =>
        LET p == ui'.pressed
            tgt == ui'.editTarget
            v == ui'.editView
        IN /\ p # NullAddr => (tgt = WeakRef(p) /\ v = p)
           /\ p = NullAddr => (tgt = shaderEdit /\ v = Lock(shaderEdit))
           /\ v # NullAddr =>
                 /\ shaderRef' = v
                 /\ shaderEdit' = IF ui'.edit.closed THEN NULL ELSE tgt
           /\ v = NullAddr =>
                 /\ ui'.edit = NoEditCall
                 /\ StaticsKept
                 /\ shaderEdit' = tgt
           /\ (shaderEdit = NULL /\ p = NullAddr) =>
                 (v = NullAddr /\ shaderEdit' = NULL)]_vars

\* C12 witness: with two shaders alive, the edit window of the second one,
\* opened earlier, was closed in the last gui() call, which reset shaderEdit.
C12_Witness ==
    /\ shaderHeap[1] # NULL /\ shaderHeap[2] # NULL
    /\ ui.pressed = NullAddr
    /\ ui.editView = 2
    /\ ui.edit.closed
    /\ shaderEdit = NULL
    /\ shaderRef = 2

\* ------------------------------------------------------------ stale cache
\* The edit view over shaders of two or three stages that are built and
\* destroyed between gui() calls, a new Shader possibly at the address of a
\* destroyed one; one widget press per gui() call. The stage combo offers
\* the stages of the shader in view, three at most.
StageLists ==
    {<<"Vertex", "Fragment">>, <<"Vertex", "Fragment", "Geometry">>}

InitEditor == InspectorCtor(1) /\ Registered(0, <<>>, <<>>, <<>>, <<>>)

\* The allocator hands out the lowest free address, a freed one first.
CreateStaged ==
    \E a \in Addrs, st \in StageLists :
        /\ \A b \in Addrs : b < a => shaderHeap[b] # NULL
        /\ createShader(a, st)

\* The edit window without typing and without the precompiled view.
GuiEditor ==
    \E in \in OnePress({e \in EditEvents(3) : e.typed = NULL /\ ~e.toggle}) :
        gui(in)

NextEditor == CreateStaged \/ DestroyShader \/ GuiEditor

SpecEditor == InitEditor /\ [][NextEditor]_vars

\* C13: whenever a gui() call displays the edit view of a shader, the cached
\* stage sources were loaded from that Shader object and have one entry per
\* stage of it.
C13_CacheOfEditedShader ==
    [][(GuiStep /\ ui'.editView # NullAddr) =>
        /\ shaderCodeFrom' = Ref(shaderHeap[ui'.editView][1].uid)
        /\ Len(shaderCode') = Len(shaderHeap[ui'.editView][1].sources)]_vars

\* C14: every index editShader applies to the cached stage sources is in
\* range, and the selected stage it leaves is a stage of the list.
C14_IndicesInRange ==
    [][(GuiStep /\ ui'.editView # NullAddr) =>
        /\ \A k \in 1..Len(ui'.edit.indexed) :
              /\ 0 <= ui'.edit.indexed[k].i
              /\ ui'.edit.indexed[k].i < ui'.edit.indexed[k].size
        /\ InRange(shaderCode', selectedShader')
        /\ selectedShader' < Len(shaderHeap[ui'.editView][1].sources)]_vars

====
